---- MODULE Spec2Model ----
(***************************************************************************)
(* A model of shared_ptr.h: control blocks with a strong and a weak        *)
(* counter, shared_ptr and weak_ptr handles, and make_shared.              *)
(*                                                                         *)
(* Handles are slots.  Slots 1..NumShared / 1..NumWeak are automatic       *)
(* variables of the calling program; they are declared (constructed) and   *)
(* go out of scope (destroyed) one at a time.  Payloads hold handles too:   *)
(* make_shared builds a                                                    *)
(*     struct Node { shared_ptr<Payload> next; };                          *)
(* and a raw pointer adopted by a shared_ptr points to a new               *)
(*     struct Observer { weak_ptr<Payload> parent; };                      *)
(* The member of the payload of block b is the slot MemberS(b) or          *)
(* MemberW(b): it is constructed empty with the payload and destroyed by   *)
(* the payload's destructor, which delete_object() runs.                   *)
(*                                                                         *)
(* Every public operation is one atomic step, the destructors of its       *)
(* temporaries and every destructor these run re-entrantly included.       *)
(* A step that runs into undefined behaviour (a second delete_object() on  *)
(* one payload, a read of a deallocated block's counters) sets ub; the     *)
(* program is followed up to that step and not beyond it.                  *)
(*                                                                         *)
(* A call that ends by an exception leaves its outcome in exc: how often   *)
(* the deleter was invoked on the raw pointer passed in, and what became   *)
(* of the storage the call had obtained.                                   *)
(***************************************************************************)
EXTENDS Integers, FiniteSets, TLC

\* ------------------------------------------------------------- bounds
MaxBlocks == 2
NumShared == 2
NumWeak == 1

\* ------------------------------------------------------------- values
Null == 0

Blocks == 1..MaxBlocks
StackS == 1..NumShared
StackW == 1..NumWeak
SharedIds == 1..(NumShared + MaxBlocks)
WeakIds == 1..(NumWeak + MaxBlocks)

\* the members of the payload of block b
MemberS(b) == NumShared + b
MemberW(b) == NumWeak + b

\* addresses: the payload of block b, and a sub-object of it
PayloadAddr(b) == b
FieldAddr(b) == 0 - b

VARIABLES blk, sh, wk, ub, last, exc

vars == <<blk, sh, wk, ub, last, exc>>

\* control_block: ref_count = 1, weak_count = 0 on construction.  ptr is
\* control_block_ptr::ptr (or the address of control_block_obj::data), darg
\* the address delete_object() last destroyed, uaf the number of reads of
\* the counters after the block was deallocated.
NoBlock ==
    [kind |-> "none", ref_count |-> 0, weak_count |-> 0, deleted |-> 0, freed |-> 0,
     ptr |-> Null, darg |-> Null, uaf |-> 0]
NewBlock(k, p) ==
    [kind |-> k, ref_count |-> 1, weak_count |-> 0, deleted |-> 0, freed |-> 0,
     ptr |-> p, darg |-> Null, uaf |-> 0]

\* a handle: cb{} and ptr{}; live is whether the object exists
Dead == [live |-> FALSE, cb |-> Null, ptr |-> Null]
Empty == [live |-> TRUE, cb |-> Null, ptr |-> Null]
Handle(c, p) == [live |-> TRUE, cb |-> c, ptr |-> p]

Cur == [blk |-> blk, sh |-> sh, wk |-> wk, ub |-> ub]

\* ------------------------------------------------------------- control_block
\* The counters are size_t.  No reachable step decrements a counter that is 0
\* (NoWrap below), so the arithmetic never wraps and is written on naturals.
add_ref(st, c) == [st EXCEPT !.blk[c].ref_count = @ + 1]

add_weak(st, c) == [st EXCEPT !.blk[c].weak_count = @ + 1]

release_weak(st, c) == [st EXCEPT !.blk[c].weak_count = @ - 1]

use_count(st, c) == st.blk[c].ref_count

weak_use_count(st, c) == st.blk[c].weak_count

\* delete cb
DeleteBlock(st, c) == [st EXCEPT !.blk[c].freed = @ + 1]

\* DtorWeak with a fault: a weak_ptr never deallocates the block
DtorWeak_NoFree(st, c) ==
    IF c = Null THEN st ELSE release_weak(st, c)

\* ~weak_ptr on a handle whose control-block reference is c
DtorWeak(st, c) ==
    IF c = Null THEN st
    ELSE LET s1 == release_weak(st, c)
         IN IF st.blk[c].freed > 0
            THEN [s1 EXCEPT !.ub = TRUE, !.blk[c].uaf = @ + 1]
            ELSE IF use_count(s1, c) = 0 /\ weak_use_count(s1, c) = 0
                 THEN DeleteBlock(s1, c)
                 ELSE s1

RECURSIVE DtorShared(_, _, _)
RECURSIVE delete_object(_, _, _)

\* ~Node(): the member next is destroyed
DestroyNode(st, c, stale) ==
    LET s == MemberS(c)
        s1 == [st EXCEPT !.sh[s] = Dead]
    IN DtorShared(s1, st.sh[s].cb, stale)

\* ~Observer(): the member parent is destroyed
DestroyObserver(st, c) ==
    LET w == MemberW(c)
        s1 == [st EXCEPT !.wk[w] = Dead]
    IN DtorWeak(s1, st.wk[w].cb)

\* control_block_ptr::delete_object (the deleter, which deletes the Observer)
\* and control_block_obj::delete_object (the Node's destructor in place)
delete_object(st, c, stale) ==
    LET s1 == [st EXCEPT !.blk[c].deleted = @ + 1, !.blk[c].darg = st.blk[c].ptr]
    IN IF st.blk[c].deleted > 0
       THEN [s1 EXCEPT !.ub = TRUE]
       ELSE IF st.blk[c].kind = "obj"
            THEN DestroyNode(s1, c, stale)
            ELSE DestroyObserver(s1, c)

\* release_ref with a fault: the payload is kept while weak references remain
release_ref_WeakKeeps(st, c, stale) ==
    LET s1 == [st EXCEPT !.blk[c].ref_count = @ - 1]
    IN IF use_count(s1, c) = 0 /\ weak_use_count(s1, c) = 0
       THEN delete_object(s1, c, stale)
       ELSE s1

\* control_block::release_ref
release_ref(st, c, stale) ==
    LET s1 == [st EXCEPT !.blk[c].ref_count = @ - 1]
    IN IF use_count(s1, c) = 0 THEN delete_object(s1, c, stale) ELSE s1

\* DtorShared with a fault: the block is deallocated with the payload, even
\* when weak references remain
DtorShared_FreesEarly(st, c, stale) ==
    IF c = Null THEN st
    ELSE LET s1 == release_ref(st, c, stale)
         IN IF s1.blk[c].freed > 0
            THEN IF stale
                 THEN [DeleteBlock(s1, c) EXCEPT !.ub = TRUE, !.blk[c].uaf = @ + 1]
                 ELSE [s1 EXCEPT !.ub = TRUE, !.blk[c].uaf = @ + 1]
            ELSE IF use_count(s1, c) = 0
                 THEN DeleteBlock(s1, c)
                 ELSE s1

\* ~shared_ptr on a handle whose control-block reference is c.  When
\* release_ref() has deallocated the block re-entrantly, the reads of the
\* counters that follow read freed memory: stale says whether they still
\* see the two zeros (and the block is deleted again) or not.
DtorShared(st, c, stale) ==
    IF c = Null THEN st
    ELSE LET s1 == release_ref(st, c, stale)
         IN IF s1.blk[c].freed > 0
            THEN IF stale
                 THEN [DeleteBlock(s1, c) EXCEPT !.ub = TRUE, !.blk[c].uaf = @ + 1]
                 ELSE [s1 EXCEPT !.ub = TRUE, !.blk[c].uaf = @ + 1]
            ELSE IF use_count(s1, c) = 0 /\ weak_use_count(s1, c) = 0
                 THEN DeleteBlock(s1, c)
                 ELSE s1

\* ------------------------------------------------------------- the program
\* the next block a new expression returns
Fresh == CHOOSE b \in Blocks : blk[b].kind = "none" /\ \A a \in Blocks : blk[a].kind = "none" => b <= a

CanAlloc == \E b \in Blocks : blk[b].kind = "none"

CanDeclS(s) == ~ub /\ s \in StackS /\ ~sh[s].live
CanUseS(s) == ~ub /\ sh[s].live
CanDeclW(w) == ~ub /\ w \in StackW /\ ~wk[w].live
CanUseW(w) == ~ub /\ wk[w].live

\* the outcome of a call that returned
NoExc == [thrown |-> FALSE, dcalls |-> 0, allocs |-> 0, frees |-> 0, dtors |-> 0]

Commit(st, op, d, s) ==
    /\ blk' = st.blk
    /\ sh' = st.sh
    /\ wk' = st.wk
    /\ ub' = st.ub
    /\ last' = [op |-> op, dst |-> d, src |-> s]
    /\ exc' = NoExc

\* a call that ended by an exception: r is [st, exc]
CommitThrow(r, op, d, s) ==
    /\ blk' = r.st.blk
    /\ sh' = r.st.sh
    /\ wk' = r.st.wk
    /\ ub' = r.st.ub
    /\ last' = [op |-> op, dst |-> d, src |-> s]
    /\ exc' = r.exc

Init ==
    /\ blk = [b \in Blocks |-> NoBlock]
    /\ sh = [s \in SharedIds |-> Dead]
    /\ wk = [w \in WeakIds |-> Dead]
    /\ ub = FALSE
    /\ last = [op |-> "init", dst |-> 0, src |-> 0]
    /\ exc = NoExc

\* ------------------------------------------------------------- shared_ptr
\* copy_ctor with a fault: the copy does not add a reference
copy_ctor_NoAddRef(st, s, r) ==
    [st EXCEPT !.sh[s] = Handle(st.sh[r].cb, st.sh[r].ptr)]

\* shared_ptr(shared_ptr const& rhs)
copy_ctor(st, s, r) ==
    LET h == st.sh[r]
        s1 == [st EXCEPT !.sh[s] = Handle(h.cb, h.ptr)]
    IN IF h.cb # Null THEN add_ref(s1, h.cb) ELSE s1

\* shared_ptr(Y* p, D deleter): p is a fresh payload, b the block new returns
raw_ctor(st, s, b) ==
    [st EXCEPT !.blk[b] = NewBlock("ptr", PayloadAddr(b)),
               !.sh[s] = Handle(b, PayloadAddr(b)),
               !.wk[MemberW(b)] = Empty]

\* raw_ctor_throw with a fault: the handler rethrows without the deleter
raw_ctor_throw_Leaks(st, s) ==
    [st |-> st,
     exc |-> [thrown |-> TRUE, dcalls |-> 0, allocs |-> 0, frees |-> 0, dtors |-> 0]]

\* shared_ptr(Y* p, D deleter) when new control_block_ptr throws: the handler
\* invokes deleter(p) and rethrows; the handle s never comes to exist
raw_ctor_throw(st, s) ==
    [st |-> st,
     exc |-> [thrown |-> TRUE, dcalls |-> 1, allocs |-> 0, frees |-> 0, dtors |-> 0]]

\* alias_ctor with a fault: the aliasing handle takes no reference
alias_ctor_NoAddRef(st, s, r, p) ==
    [st EXCEPT !.sh[s] = Handle(st.sh[r].cb, p)]

\* shared_ptr(shared_ptr<Y> const& r, T* ptr)
alias_ctor(st, s, r, p) ==
    LET h == st.sh[r]
        s1 == [st EXCEPT !.sh[s] = Handle(h.cb, p)]
    IN IF h.cb # Null THEN add_ref(s1, h.cb) ELSE s1

\* shared_ptr(shared_ptr&& rhs)
move_ctor(st, s, r) ==
    LET h == st.sh[r]
    IN [st EXCEPT !.sh[s] = Handle(h.cb, h.ptr), !.sh[r] = Empty]

\* shared_ptr(weak_ptr<Y> const& r)
weak_ctor(st, s, w) ==
    LET h == st.wk[w]
        s1 == [st EXCEPT !.sh[s] = Handle(h.cb, h.ptr)]
    IN IF h.cb # Null THEN add_ref(s1, h.cb) ELSE s1

\* copy_assign with a fault: the former *this is released before rhs is
\* copied
copy_assign_ReleaseFirst(st, d, r, stale) ==
    LET h == st.sh[r]
        old == st.sh[d]
        s1 == DtorShared([st EXCEPT !.sh[d] = Empty], old.cb, stale)
        s2 == IF h.cb # Null THEN add_ref(s1, h.cb) ELSE s1
    IN [s2 EXCEPT !.sh[d] = Handle(h.cb, h.ptr)]

\* operator=(shared_ptr const& rhs): shared_ptr(rhs).swap(*this), then the
\* temporary, which holds the former *this, is destroyed
copy_assign(st, d, r, stale) ==
    LET h == st.sh[r]
        old == st.sh[d]
        s1 == IF h.cb # Null THEN add_ref(st, h.cb) ELSE st
        s2 == [s1 EXCEPT !.sh[d] = Handle(h.cb, h.ptr)]
    IN DtorShared(s2, old.cb, stale)

\* move_assign with a fault: the source keeps its reference (a copy)
move_assign_Copies(st, d, r, stale) ==
    LET h == st.sh[r]
        old == st.sh[d]
        s1 == IF h.cb # Null THEN add_ref(st, h.cb) ELSE st
        s2 == [s1 EXCEPT !.sh[d] = Handle(h.cb, h.ptr)]
    IN DtorShared(s2, old.cb, stale)

\* operator=(shared_ptr&& rhs): shared_ptr(std::move(rhs)).swap(*this), then
\* the temporary, which holds the former *this, is destroyed
move_assign(st, d, r, stale) ==
    IF d = r THEN st
    ELSE LET h == st.sh[r]
             old == st.sh[d]
             s1 == [st EXCEPT !.sh[r] = Empty, !.sh[d] = Handle(h.cb, h.ptr)]
         IN DtorShared(s1, old.cb, stale)

\* reset with a fault: the handle is emptied without releasing its reference
reset_NoRelease(st, s, stale) ==
    [st EXCEPT !.sh[s] = Empty]

\* reset()
reset(st, s, stale) ==
    LET old == st.sh[s]
        s1 == [st EXCEPT !.sh[s] = Empty]
    IN DtorShared(s1, old.cb, stale)

\* reset(Y* ptr, Deleter d)
reset_raw(st, s, b, stale) ==
    LET old == st.sh[s]
        s1 == [st EXCEPT !.blk[b] = NewBlock("ptr", PayloadAddr(b)),
                         !.sh[s] = Handle(b, PayloadAddr(b)),
                         !.wk[MemberW(b)] = Empty]
    IN DtorShared(s1, old.cb, stale)

\* reset_raw_throw with a fault: the old reference is dropped before the new
\* handle is built
reset_raw_throw_ResetsFirst(st, s, stale) ==
    [st |-> reset(st, s, stale), exc |-> raw_ctor_throw(st, s).exc]

\* reset(Y* ptr, Deleter d) when the temporary's constructor throws: swap
\* is not reached
reset_raw_throw(st, s, stale) == raw_ctor_throw(st, s)

\* swap(shared_ptr& r)
swap(st, a, b) ==
    [st EXCEPT !.sh[a] = st.sh[b], !.sh[b] = st.sh[a]]

\* a shared_ptr goes out of scope
destroy(st, s, stale) ==
    LET old == st.sh[s]
        s1 == [st EXCEPT !.sh[s] = Dead]
    IN DtorShared(s1, old.cb, stale)

\* make_shared<Node>(): one block, the payload built in place, its member empty
make_shared(st, s, b) ==
    [st EXCEPT !.blk[b] = NewBlock("obj", PayloadAddr(b)),
               !.sh[s] = Handle(b, PayloadAddr(b)),
               !.sh[MemberS(b)] = Empty]

\* make_shared_throw with a fault: the storage is kept and the destructor of
\* the payload that was never built is run
make_shared_throw_Destroys(st, s) ==
    [st |-> st,
     exc |-> [thrown |-> TRUE, dcalls |-> 0, allocs |-> 1, frees |-> 0, dtors |-> 1]]

\* make_shared<Node>() when Node's constructor throws inside
\* control_block_obj's constructor: the new expression has obtained the
\* storage, the constructor leaves by the exception before any payload
\* exists, and the new expression releases the storage; neither
\* ~control_block_obj nor delete_object() runs, and cur is never built
make_shared_throw(st, s) ==
    [st |-> st,
     exc |-> [thrown |-> TRUE, dcalls |-> 0, allocs |-> 1, frees |-> 1, dtors |-> 0]]

\* the addresses an aliasing constructor is given for r
AliasAddrs(r) == {FieldAddr(b) : b \in {c \in Blocks : c = sh[r].cb}}

SharedDefault(s) ==
    /\ CanDeclS(s)
    /\ Commit([Cur EXCEPT !.sh[s] = Empty], "shared_default", s, 0)

SharedRaw(s) ==
    /\ CanDeclS(s)
    /\ CanAlloc
    /\ Commit(raw_ctor(Cur, s, Fresh), "shared_raw", s, 0)

SharedRawThrow(s) ==
    /\ CanDeclS(s)
    /\ CanAlloc
    /\ CommitThrow(raw_ctor_throw(Cur, s), "shared_raw_throw", s, 0)

MakeSharedThrow(s) ==
    /\ CanDeclS(s)
    /\ CanAlloc
    /\ CommitThrow(make_shared_throw(Cur, s), "make_shared_throw", s, 0)

MakeShared(s) ==
    /\ CanDeclS(s)
    /\ CanAlloc
    /\ Commit(make_shared(Cur, s, Fresh), "make_shared", s, 0)

SharedCopy(s, r) ==
    /\ CanDeclS(s)
    /\ CanUseS(r)
    /\ Commit(copy_ctor(Cur, s, r), "shared_copy", s, r)

SharedAlias(s, r) ==
    /\ CanDeclS(s)
    /\ CanUseS(r)
    /\ \E p \in AliasAddrs(r) : Commit(alias_ctor(Cur, s, r, p), "shared_alias", s, r)

SharedMove(s, r) ==
    /\ CanDeclS(s)
    /\ CanUseS(r)
    /\ Commit(move_ctor(Cur, s, r), "shared_move", s, r)

SharedFromWeak(s, w) ==
    /\ CanDeclS(s)
    /\ CanUseW(w)
    /\ Commit(weak_ctor(Cur, s, w), "shared_from_weak", s, w)

SharedCopyAssign(d, r) ==
    /\ CanUseS(d)
    /\ CanUseS(r)
    /\ \E stale \in BOOLEAN : Commit(copy_assign(Cur, d, r, stale), "shared_copy_assign", d, r)

SharedMoveAssign(d, r) ==
    /\ CanUseS(d)
    /\ CanUseS(r)
    /\ \E stale \in BOOLEAN : Commit(move_assign(Cur, d, r, stale), "shared_move_assign", d, r)

SharedReset(s) ==
    /\ CanUseS(s)
    /\ \E stale \in BOOLEAN : Commit(reset(Cur, s, stale), "shared_reset", s, 0)

SharedResetRaw(s) ==
    /\ CanUseS(s)
    /\ CanAlloc
    /\ \E stale \in BOOLEAN : Commit(reset_raw(Cur, s, Fresh, stale), "shared_reset_raw", s, 0)

SharedResetRawThrow(s) ==
    /\ CanUseS(s)
    /\ CanAlloc
    /\ \E stale \in BOOLEAN :
          CommitThrow(reset_raw_throw(Cur, s, stale), "shared_reset_raw_throw", s, 0)

SharedSwap(a, b) ==
    /\ CanUseS(a)
    /\ CanUseS(b)
    /\ Commit(swap(Cur, a, b), "shared_swap", a, b)

SharedDestroy(s) ==
    /\ CanUseS(s)
    /\ s \in StackS
    /\ \E stale \in BOOLEAN : Commit(destroy(Cur, s, stale), "shared_destroy", s, 0)

\* ------------------------------------------------------------- weak_ptr
\* weak_ptr(weak_ptr const& r)
wcopy_ctor(st, w, r) ==
    LET h == st.wk[r]
        s1 == [st EXCEPT !.wk[w] = Handle(h.cb, h.ptr)]
    IN IF h.cb # Null THEN add_weak(s1, h.cb) ELSE s1

\* weak_ptr(weak_ptr&& r)
wmove_ctor(st, w, r) ==
    LET h == st.wk[r]
    IN [st EXCEPT !.wk[w] = Handle(h.cb, h.ptr), !.wk[r] = Empty]

\* weak_ptr(shared_ptr<Y> const& r)
wshared_ctor(st, w, s) ==
    LET h == st.sh[s]
        s1 == [st EXCEPT !.wk[w] = Handle(h.cb, h.ptr)]
    IN IF h.cb # Null THEN add_weak(s1, h.cb) ELSE s1

\* wcopy_assign with a fault: the old reference is released before the new
\* one is taken
wcopy_assign_ReleaseFirst(st, d, r) ==
    LET h == st.wk[r]
        s1 == DtorWeak(st, st.wk[d].cb)
        s2 == IF h.cb # Null THEN add_weak(s1, h.cb) ELSE s1
    IN [s2 EXCEPT !.wk[d] = Handle(h.cb, h.ptr)]

\* weak_ptr::operator=(weak_ptr const& rhs)
wcopy_assign(st, d, r) ==
    LET h == st.wk[r]
        old == st.wk[d]
        s1 == IF h.cb # Null THEN add_weak(st, h.cb) ELSE st
        s2 == [s1 EXCEPT !.wk[d] = Handle(h.cb, h.ptr)]
    IN DtorWeak(s2, old.cb)

\* weak_ptr::operator=(weak_ptr&& rhs)
wmove_assign(st, d, r) ==
    IF d = r THEN st
    ELSE LET h == st.wk[r]
             old == st.wk[d]
             s1 == [st EXCEPT !.wk[r] = Empty, !.wk[d] = Handle(h.cb, h.ptr)]
         IN DtorWeak(s1, old.cb)

\* weak_ptr::use_count
wuse_count(st, w) == IF st.wk[w].cb = Null THEN 0 ELSE use_count(st, st.wk[w].cb)

\* weak_ptr::expired
expired(st, w) == wuse_count(st, w) = 0

\* lock with a fault: the upgrade is not guarded by expired()
lock_Unchecked(st, s, w) == weak_ctor(st, s, w)

\* weak_ptr::lock
lock(st, s, w) ==
    IF ~expired(st, w) THEN weak_ctor(st, s, w) ELSE [st EXCEPT !.sh[s] = Empty]

\* weak_ptr::swap
wswap(st, a, b) ==
    [st EXCEPT !.wk[a] = st.wk[b], !.wk[b] = st.wk[a]]

\* a weak_ptr goes out of scope
wdestroy(st, w) ==
    LET old == st.wk[w]
        s1 == [st EXCEPT !.wk[w] = Dead]
    IN DtorWeak(s1, old.cb)

WeakDefault(w) ==
    /\ CanDeclW(w)
    /\ Commit([Cur EXCEPT !.wk[w] = Empty], "weak_default", w, 0)

WeakCopy(w, r) ==
    /\ CanDeclW(w)
    /\ CanUseW(r)
    /\ Commit(wcopy_ctor(Cur, w, r), "weak_copy", w, r)

WeakMove(w, r) ==
    /\ CanDeclW(w)
    /\ CanUseW(r)
    /\ Commit(wmove_ctor(Cur, w, r), "weak_move", w, r)

WeakFromShared(w, s) ==
    /\ CanDeclW(w)
    /\ CanUseS(s)
    /\ Commit(wshared_ctor(Cur, w, s), "weak_from_shared", w, s)

WeakCopyAssign(d, r) ==
    /\ CanUseW(d)
    /\ CanUseW(r)
    /\ Commit(wcopy_assign(Cur, d, r), "weak_copy_assign", d, r)

WeakMoveAssign(d, r) ==
    /\ CanUseW(d)
    /\ CanUseW(r)
    /\ Commit(wmove_assign(Cur, d, r), "weak_move_assign", d, r)

WeakSwap(a, b) ==
    /\ CanUseW(a)
    /\ CanUseW(b)
    /\ Commit(wswap(Cur, a, b), "weak_swap", a, b)

WeakDestroy(w) ==
    /\ CanUseW(w)
    /\ w \in StackW
    /\ Commit(wdestroy(Cur, w), "weak_destroy", w, 0)

Lock(s, w) ==
    /\ CanDeclS(s)
    /\ CanUseW(w)
    /\ Commit(lock(Cur, s, w), "lock", s, w)

Next ==
    \/ \E s \in SharedIds : SharedDefault(s)
    \/ \E s \in SharedIds : SharedRaw(s)
    \/ \E s \in SharedIds : MakeShared(s)
    \/ \E s \in SharedIds : SharedRawThrow(s)
    \/ \E s \in SharedIds : MakeSharedThrow(s)
    \/ \E s \in SharedIds : SharedResetRawThrow(s)
    \/ \E s, r \in SharedIds : SharedCopy(s, r)
    \/ \E s, r \in SharedIds : SharedAlias(s, r)
    \/ \E s, r \in SharedIds : SharedMove(s, r)
    \/ \E s \in SharedIds, w \in WeakIds : SharedFromWeak(s, w)
    \/ \E d, r \in SharedIds : SharedCopyAssign(d, r)
    \/ \E d, r \in SharedIds : SharedMoveAssign(d, r)
    \/ \E s \in SharedIds : SharedReset(s)
    \/ \E s \in SharedIds : SharedResetRaw(s)
    \/ \E a, b \in SharedIds : SharedSwap(a, b)
    \/ \E s \in SharedIds : SharedDestroy(s)
    \/ \E w \in WeakIds : WeakDefault(w)
    \/ \E w, r \in WeakIds : WeakCopy(w, r)
    \/ \E w, r \in WeakIds : WeakMove(w, r)
    \/ \E w \in WeakIds, s \in SharedIds : WeakFromShared(w, s)
    \/ \E d, r \in WeakIds : WeakCopyAssign(d, r)
    \/ \E d, r \in WeakIds : WeakMoveAssign(d, r)
    \/ \E a, b \in WeakIds : WeakSwap(a, b)
    \/ \E w \in WeakIds : WeakDestroy(w)
    \/ \E s \in SharedIds, w \in WeakIds : Lock(s, w)

Spec == Init /\ [][Next]_vars

\* ------------------------------------------------------------- queries
\* shared_ptr::use_count
suse_count(st, s) == IF st.sh[s].cb # Null THEN use_count(st, st.sh[s].cb) ELSE 0

Allocated(b) == blk[b].kind # "none"

LiveSharedOn(b) == {s \in SharedIds : sh[s].live /\ sh[s].cb = b}

LiveWeakOn(b) == {w \in WeakIds : wk[w].live /\ wk[w].cb = b}

\* the counters never wrap
NoWrap == \A b \in Blocks : blk[b].ref_count >= 0 /\ blk[b].weak_count >= 0

\* ------------------------------------------------------------- claims

\* the state a step leads to
Nxt == [blk |-> blk', sh |-> sh', wk |-> wk', ub |-> ub']

\* C1: for every control block, delete_object() runs at most once, and it
\* runs exactly in the step in which strong_count reaches 0 (from the 1 the
\* last owner held).
C1_DestroyedOnceAtLastRelease ==
    [][\A b \in Blocks :
          /\ blk'[b].deleted <= 1
          /\ (blk'[b].deleted # blk[b].deleted) <=>
                /\ blk'[b].kind # "none"
                /\ blk'[b].ref_count = 0
                /\ blk[b].ref_count > 0 \/ ~Allocated(b)]_vars

\* C2: a control block is deallocated at most once, only with both counters
\* zero, and never while a live shared_ptr or weak_ptr references it.
C2_FreedOnceWhenUnreferenced ==
    [][\A b \in Blocks :
          /\ blk'[b].freed <= 1
          /\ blk'[b].freed # blk[b].freed =>
                /\ blk'[b].ref_count = 0
                /\ blk'[b].weak_count = 0
                /\ \A s \in SharedIds : ~(sh'[s].live /\ sh'[s].cb = b)
                /\ \A w \in WeakIds : ~(wk'[w].live /\ wk'[w].cb = b)]_vars

\* C3: between operations, for every block not deallocated, the payload is
\* alive iff strong_count > 0, and no operation raises strong_count from 0.
C3_AliveIffStrong ==
    [][\A b \in Blocks :
          /\ (Allocated(b) /\ blk[b].freed = 0) =>
                ((blk[b].deleted = 0) <=> (blk[b].ref_count > 0))
          /\ (Allocated(b) /\ blk[b].ref_count = 0) => blk'[b].ref_count = 0]_vars

\* C4: between operations, strong_count of every block is the number of live
\* shared_ptr handles referencing it and weak_count the number of live
\* weak_ptr handles referencing it; use_count() is 0 exactly for the handles
\* with a null control-block reference.
C4_CountsMatchHandles ==
    /\ \A b \in Blocks :
          (Allocated(b) /\ blk[b].freed = 0) =>
             /\ blk[b].ref_count = Cardinality(LiveSharedOn(b))
             /\ blk[b].weak_count = Cardinality(LiveWeakOn(b))
    /\ \A s \in SharedIds :
          sh[s].live => ((suse_count(Cur, s) = 0) <=> (sh[s].cb = Null))

\* C4 witness: a copy has just been made of a handle constructed from a raw
\* pointer, and both handles report use_count() = 2
C4_Witness ==
    /\ last.op = "shared_copy"
    /\ sh[last.src].cb # Null
    /\ blk[sh[last.src].cb].kind = "ptr"
    /\ sh[last.dst].cb = sh[last.src].cb
    /\ suse_count(Cur, last.src) = 2
    /\ suse_count(Cur, last.dst) = 2

\* C5: shared_ptr(weak_ptr const&) gives the empty handle and changes no
\* counter when the weak pointer's block has strong count zero, and behaves
\* like a copy otherwise.
C5_UpgradeChecksExpiry ==
    [][(last'.op = "shared_from_weak" /\ wk[last'.src].cb # Null) =>
          LET s == last'.dst
              w == last'.src
          IN IF use_count(Cur, wk[w].cb) = 0
             THEN sh'[s] = Empty /\ blk' = blk
             ELSE /\ sh'[s] = Handle(wk[w].cb, wk[w].ptr)
                  /\ blk' = [blk EXCEPT ![wk[w].cb].ref_count = @ + 1]]_vars

\* C6: lock() returns the empty shared_ptr and changes no counter when the
\* weak pointer is expired (null block or strong count 0); otherwise the
\* result shares the weak pointer's block and address, strong_count grows by
\* exactly 1 and weak_count is unchanged.
C6_LockUpgradesOrEmpty ==
    [][last'.op = "lock" =>
          LET s == last'.dst
              w == last'.src
          IN IF wk[w].cb = Null \/ blk[wk[w].cb].ref_count = 0
             THEN sh'[s] = Empty /\ blk' = blk
             ELSE /\ sh'[s] = Handle(wk[w].cb, wk[w].ptr)
                  /\ blk' = [blk EXCEPT ![wk[w].cb].ref_count = @ + 1]]_vars

\* C6 witness: lock() has just been called on a weak pointer whose block has
\* lost its last owner, and has returned the empty handle
C6_Witness ==
    /\ last.op = "lock"
    /\ wk[last.src].cb # Null
    /\ blk[wk[last.src].cb].ref_count = 0
    /\ blk[wk[last.src].cb].deleted = 1
    /\ sh[last.dst] = Empty

\* C7: w.expired() holds iff w has a null block reference or no live
\* shared_ptr shares w's block; once true for a weak pointer and its block,
\* it stays true.
C7_ExpiredIsStable ==
    [][\A w \in WeakIds :
          /\ wk[w].live =>
                (expired(Cur, w) <=>
                    (wk[w].cb = Null \/ LiveSharedOn(wk[w].cb) = {}))
          /\ (wk[w].live /\ wk'[w].live /\ wk'[w].cb = wk[w].cb /\ expired(Cur, w))
                => expired(Nxt, w)]_vars

WeakOps ==
    {"weak_default", "weak_copy", "weak_move", "weak_from_shared",
     "weak_copy_assign", "weak_move_assign", "weak_swap", "weak_destroy"}

\* C8: the weak_ptr operations leave every strong_count (and every payload)
\* as it was, and a payload is destroyed in the step that releases its last
\* shared_ptr however many weak_ptr handles reference the block.
C8_WeakNeverOwns ==
    [][/\ last'.op \in WeakOps =>
             \A b \in Blocks :
                /\ blk'[b].ref_count = blk[b].ref_count
                /\ blk'[b].deleted = blk[b].deleted
       /\ \A b \in Blocks :
             (blk[b].ref_count > 0 /\ blk'[b].ref_count = 0) =>
                blk'[b].deleted = blk[b].deleted + 1]_vars

\* C8 witness: the last shared_ptr of a block has just been destroyed while a
\* weak_ptr still references the block: the payload is gone, the block stays
C8_Witness ==
    /\ last.op = "shared_destroy"
    /\ \E b \in Blocks :
          /\ blk[b].ref_count = 0
          /\ blk[b].weak_count > 0
          /\ blk[b].deleted = 1
          /\ blk[b].freed = 0

\* C9: once no shared_ptr and no weak_ptr references a block any more, its
\* payload has been destroyed and the block has been deallocated.
C9_NoLeak ==
    \A b \in Blocks :
       (Allocated(b) /\ LiveSharedOn(b) = {} /\ LiveWeakOn(b) = {}) =>
          (blk[b].deleted >= 1 /\ blk[b].freed >= 1)

\* C9 witness: the last handle of a block, a weak_ptr that outlived every
\* shared_ptr, has just been destroyed and the block is gone
C9_Witness ==
    /\ last.op = "weak_destroy"
    /\ \E b \in Blocks :
          /\ Allocated(b)
          /\ LiveSharedOn(b) = {} /\ LiveWeakOn(b) = {}
          /\ blk[b].deleted = 1
          /\ blk[b].freed = 1
          /\ \A c \in Blocks : c # b => ~Allocated(c)

\* what a move does to the two handles
MoveHandsOver(d, r) ==
    /\ sh'[r].cb = Null
    /\ sh'[r].ptr = Null
    /\ suse_count(Nxt, r) = 0
    /\ sh'[d] = Handle(sh[r].cb, sh[r].ptr)

\* C10 as stated: a move from a different handle empties the source, hands
\* its block and address to the destination and changes neither counter of
\* the moved block.
C10_MoveKeepsCounts ==
    [][(last'.op \in {"shared_move", "shared_move_assign"} /\ last'.dst # last'.src) =>
          LET d == last'.dst
              r == last'.src
          IN /\ MoveHandsOver(d, r)
             /\ sh[r].cb # Null => blk'[sh[r].cb] = blk[sh[r].cb]]_vars

\* C10 amended: move construction is as stated.  Move assignment empties the
\* source; when the destination was empty, or referenced another block that
\* keeps an owner, the destination takes over the source's block and address
\* and the moved block's counters are unchanged; when the destination
\* referenced the moved block itself, it takes over block and address and
\* the strong count drops by exactly one, the reference the destination
\* gave up.
C10_MoveTransfers ==
    [][LET d == last'.dst
           r == last'.src
       IN /\ (last'.op = "shared_move" /\ d # r) =>
                /\ MoveHandsOver(d, r)
                /\ blk' = blk
          /\ (last'.op = "shared_move_assign" /\ d # r) =>
                LET old == sh[d].cb
                    c == sh[r].cb
                IN /\ sh'[r].cb = Null /\ sh'[r].ptr = Null
                   /\ (old = Null \/ (old # c /\ use_count(Cur, old) > 1)) =>
                         /\ MoveHandsOver(d, r)
                         /\ c # Null => blk'[c] = blk[c]
                   /\ (old # Null /\ old = c) =>
                         /\ MoveHandsOver(d, r)
                         /\ blk'[c] = [blk[c] EXCEPT !.ref_count = @ - 1]]_vars

\* C10 witness: a move assignment from a different, non-empty handle has just
\* acted: the source is empty and the destination is the block's one owner
C10_Witness ==
    /\ last.op = "shared_move_assign"
    /\ last.dst # last.src
    /\ sh[last.src] = Empty
    /\ sh[last.dst].cb # Null
    /\ blk[sh[last.dst].cb].ref_count = 1
    /\ blk[sh[last.dst].cb].deleted = 0
    /\ \A b \in Blocks : b # sh[last.dst].cb => ~Allocated(b)

AssignOps ==
    {"shared_copy_assign", "shared_move_assign", "weak_copy_assign", "weak_move_assign"}

\* C11: assigning a shared_ptr or a weak_ptr to itself, by copy or by move,
\* leaves the handle, every other handle and every block (counters, payload,
\* storage) exactly as they were.
C11_SelfAssignIsNoOp ==
    [][(last'.op \in AssignOps /\ last'.dst = last'.src) =>
          /\ blk' = blk
          /\ sh' = sh
          /\ wk' = wk
          /\ ub' = ub]_vars

\* C11 witness: a weak_ptr that is the only handle left on its block (the
\* payload is gone) has just been copy-assigned to itself and the block is
\* still allocated
C11_Witness ==
    /\ last.op = "weak_copy_assign"
    /\ last.dst = last.src
    /\ wk[last.dst].live
    /\ wk[last.dst].cb # Null
    /\ blk[wk[last.dst].cb].ref_count = 0
    /\ blk[wk[last.dst].cb].weak_count = 1
    /\ blk[wk[last.dst].cb].freed = 0

\* C12: the aliasing constructor applied to a non-empty handle shares its
\* block (strong count + 1, weak count unchanged) and stores the address it
\* was given; destroying a handle leaves every other handle on the same block
\* as it was and the payload untouched; and a payload is destroyed only in a
\* step after which no shared_ptr references its block.
C12_AliasKeepsPayload ==
    [][/\ (last'.op = "shared_alias" /\ sh[last'.src].cb # Null) =>
             LET m == last'.dst
                 c == sh[last'.src].cb
             IN /\ sh'[m].live /\ sh'[m].cb = c
                /\ sh'[m].ptr \in AliasAddrs(last'.src)
                /\ blk' = [blk EXCEPT ![c].ref_count = @ + 1]
       /\ (last'.op = "shared_destroy" /\ sh[last'.dst].cb # Null) =>
             LET c == sh[last'.dst].cb
             IN \A m \in SharedIds :
                   (m # last'.dst /\ sh[m].live /\ sh[m].cb = c) =>
                      /\ sh'[m] = sh[m]
                      /\ blk'[c].deleted = blk[c].deleted
                      /\ blk'[c].freed = blk[c].freed
       /\ \A c \in Blocks :
             blk'[c].deleted # blk[c].deleted =>
                \A m \in SharedIds : ~(sh'[m].live /\ sh'[m].cb = c)]_vars

\* C12 witness: b = make_shared, m = alias of b at a member's address, and b
\* has just been destroyed: m still holds that address, it is the block's one
\* owner and the payload is alive
C12_Witness ==
    /\ last.op = "shared_destroy"
    /\ ~sh[last.dst].live
    /\ \E m \in StackS :
          /\ sh[m].live
          /\ sh[m].cb # Null
          /\ sh[m].ptr = FieldAddr(sh[m].cb)
          /\ blk[sh[m].cb].kind = "obj"
          /\ blk[sh[m].cb].ref_count = 1
          /\ blk[sh[m].cb].deleted = 0

\* C13: the deleter of a block built from a raw pointer is invoked at most
\* once, only in a step that takes strong_count to 0 (never while it stays
\* positive), and on the pointer the constructor was given, whatever address
\* the releasing handle stores.
C13_DeleterOnceOnOriginal ==
    [][\A b \in Blocks :
          blk'[b].kind = "ptr" =>
             /\ blk'[b].deleted <= 1
             /\ blk'[b].deleted # blk[b].deleted =>
                   /\ blk'[b].ref_count = 0
                   /\ blk'[b].darg = PayloadAddr(b)]_vars

\* every block and every handle is as it was before the step
NothingChanged == blk' = blk /\ sh' = sh /\ wk' = wk /\ ub' = ub

\* C14: when the allocation of the control block fails in shared_ptr(Y*, D),
\* the deleter is invoked exactly once on the raw pointer, the exception
\* leaves the constructor, and neither a handle nor a block comes to exist.
C14_RawCtorFailureDeletes ==
    [][last'.op = "shared_raw_throw" =>
          /\ exc'.thrown
          /\ exc'.dcalls = 1
          /\ exc'.allocs = 0
          /\ ~sh'[last'.dst].live
          /\ NothingChanged]_vars

\* C14 witness: the constructor has just failed for the second handle of a
\* program that already owns a block: the deleter ran once, the slot is still
\* not a handle and no second block exists
C14_Witness ==
    /\ last.op = "shared_raw_throw"
    /\ exc.thrown /\ exc.dcalls = 1
    /\ ~sh[last.dst].live
    /\ \E b \in Blocks : Allocated(b) /\ blk[b].ref_count = 1
    /\ \E b \in Blocks : ~Allocated(b)

\* C15: when the payload's constructor throws in make_shared, the exception
\* leaves make_shared, no shared_ptr is produced, the one block allocation
\* is released, and no payload destructor (and no deleter) is run.
C15_MakeSharedFailureFrees ==
    [][last'.op = "make_shared_throw" =>
          /\ exc'.thrown
          /\ exc'.allocs = 1
          /\ exc'.frees = exc'.allocs
          /\ exc'.dtors = 0
          /\ exc'.dcalls = 0
          /\ ~sh'[last'.dst].live
          /\ NothingChanged]_vars

\* C15 witness: make_shared has just thrown; no handle was produced and no
\* block is allocated
C15_Witness ==
    /\ last.op = "make_shared_throw"
    /\ exc.thrown /\ exc.allocs = 1 /\ exc.frees = 1 /\ exc.dtors = 0
    /\ ~sh[last.dst].live
    /\ \A b \in Blocks : ~Allocated(b)

\* C20: when reset(Y*, Deleter) fails to allocate the new block, the handle
\* keeps its block reference and address, every block keeps its counters and
\* its payload, and the deleter is invoked exactly once on the new pointer
\* before the exception leaves reset.
C20_ResetFailureKeepsOld ==
    [][last'.op = "shared_reset_raw_throw" =>
          /\ exc'.thrown
          /\ exc'.dcalls = 1
          /\ sh'[last'.dst] = sh[last'.dst]
          /\ NothingChanged]_vars

\* C20 witness: reset(p, d) has just failed on the only owner of a block: the
\* handle still owns it, the payload is alive, the new pointer was deleted
C20_Witness ==
    /\ last.op = "shared_reset_raw_throw"
    /\ exc.thrown /\ exc.dcalls = 1
    /\ sh[last.dst].live
    /\ sh[last.dst].cb # Null
    /\ blk[sh[last.dst].cb].ref_count = 1
    /\ blk[sh[last.dst].cb].deleted = 0

\* C16: reset() leaves the handle empty (use_count() 0, null address) and
\* releases exactly one strong reference on the block it had, destroying the
\* payload iff that reference was the last; reset(p, d) does the same release
\* and leaves the handle on a fresh block with strong count 1.  When the
\* release is the last one on a payload that is alive and a weak pointer
\* still observes the block (the end of p(raw), q(p), w(q), p.reset(),
\* q.reset()), the payload has been destroyed exactly once, w.expired()
\* holds and w.lock() is the empty handle.
C16_ResetReleasesOne ==
    [][last'.op \in {"shared_reset", "shared_reset_raw"} =>
          LET s == last'.dst
              c == sh[s].cb
              b == Fresh
          IN /\ last'.op = "shared_reset" /\ sh'[s].live =>
                   /\ sh'[s].cb = Null /\ sh'[s].ptr = Null
                   /\ suse_count(Nxt, s) = 0
             /\ last'.op = "shared_reset_raw" /\ sh'[s].live =>
                   /\ sh'[s] = Handle(b, PayloadAddr(b))
                   /\ ~Allocated(b)
                   /\ blk'[b].ref_count = 1
                   /\ blk'[b].deleted = 0
                   /\ suse_count(Nxt, s) = 1
             /\ c = Null /\ last'.op = "shared_reset" => blk' = blk
             /\ c # Null =>
                   /\ blk'[c].ref_count = blk[c].ref_count - 1
                   /\ blk'[c].deleted =
                         blk[c].deleted + (IF blk[c].ref_count = 1 THEN 1 ELSE 0)
                   /\ blk[c].ref_count = 1 /\ blk[c].deleted = 0 =>
                         \A w \in StackW :
                            wk[w].live /\ wk[w].cb = c =>
                               /\ blk'[c].deleted = 1
                               /\ blk'[c].freed = 0
                               /\ expired(Nxt, w)
                               /\ \A n \in StackS : lock(Nxt, n, w).sh[n] = Empty]_vars

\* C16 witness: the end of the scenario: p and q, which shared an adopted
\* raw pointer, have both been reset, q last; w still observes the block,
\* whose payload has been deleted once and whose storage is kept for w
C16_Witness ==
    /\ last.op = "shared_reset"
    /\ \A s \in StackS : sh[s] = Empty
    /\ \E w \in StackW :
          /\ wk[w].live /\ wk[w].cb # Null
          /\ blk[wk[w].cb].kind = "ptr"
          /\ blk[wk[w].cb].ref_count = 0
          /\ blk[wk[w].cb].weak_count = 1
          /\ blk[wk[w].cb].deleted = 1
          /\ blk[wk[w].cb].darg = PayloadAddr(wk[w].cb)
          /\ blk[wk[w].cb].freed = 0
          /\ expired(Cur, w)
    /\ ~ub

\* C17: for a block made by make_shared, the destruction of the payload and
\* the deallocation of the block are separate events in that order: the
\* release of the last shared_ptr while weak_ptr handles remain runs the
\* payload's destructor only and keeps the block; the block is deallocated
\* by the release of the last weak_ptr, which does not run the payload's
\* destructor again.
C17_DestroyThenDeallocate ==
    [][\A b \in Blocks :
          blk'[b].kind = "obj" =>
             /\ (blk[b].ref_count > 0 /\ blk'[b].ref_count = 0 /\ blk'[b].weak_count > 0) =>
                   /\ blk'[b].deleted = blk[b].deleted + 1
                   /\ blk'[b].freed = blk[b].freed
             /\ (Allocated(b) /\ blk[b].ref_count = 0 /\ blk'[b].freed # blk[b].freed) =>
                   /\ blk[b].weak_count = 1 /\ blk'[b].weak_count = 0
                   /\ blk'[b].freed = blk[b].freed + 1
                   /\ blk[b].deleted >= 1
                   /\ blk'[b].deleted = blk[b].deleted
             /\ blk'[b].freed >= 1 => blk'[b].deleted >= 1]_vars

\* C17 witness: the last weak_ptr on a make_shared block has just been
\* released, after the last shared_ptr: the payload was destroyed once,
\* earlier, and the block is deallocated once, now
C17_Witness ==
    /\ last.op = "weak_destroy"
    /\ ~ub
    /\ \E b \in Blocks :
          /\ blk[b].kind = "obj"
          /\ blk[b].ref_count = 0 /\ blk[b].weak_count = 0
          /\ blk[b].deleted = 1
          /\ blk[b].freed = 1

\* C18: when the destruction of the payload, run inside release_ref(),
\* destroys a weak_ptr on the same block, the block is deallocated exactly
\* once and ~shared_ptr does not read the counters of the deallocated block.
C18_ReentrantReleaseSafe ==
    [][\A b \in Blocks :
          (/\ blk[b].kind = "ptr"
           /\ wk[MemberW(b)].live /\ wk[MemberW(b)].cb = b
           /\ blk'[b].deleted = blk[b].deleted + 1) =>
             /\ blk'[b].freed <= 1
             /\ blk'[b].uaf = 0
             /\ ~ub']_vars

\* C19: copy and move assignment acquire before they release: in p = q with
\* p and q on different blocks, q's block has its strong reference taken (or
\* handed over) before p's former block is released, so that p ends on q's
\* block with its payload alive, and when q is a member of p's own payload
\* (p = p->next) the strong count of q's block does not reach 0 and its
\* payload is not destroyed.
C19_AssignAcquiresFirst ==
    [][last'.op \in {"shared_copy_assign", "shared_move_assign"} =>
          LET d == last'.dst
              r == last'.src
              c == sh[r].cb
              kept == /\ blk'[c].deleted = blk[c].deleted
                      /\ blk'[c].freed = blk[c].freed
                      /\ blk'[c].ref_count >= 1
          IN (d # r /\ c # Null /\ sh[d].cb # c) =>
                /\ sh'[d].live => sh'[d] = Handle(c, sh[r].ptr) /\ kept
                /\ (sh[d].cb # Null /\ r = MemberS(sh[d].cb)) => kept]_vars

\* C19 witness: p = p->next has just run: the payload p owned is destroyed,
\* and with it the member next that was the source; p now owns the block
\* next shared, whose payload is alive
C19_Witness ==
    /\ last.op = "shared_copy_assign"
    /\ ~ub
    /\ last.dst \in StackS
    /\ \E x \in Blocks :
          /\ last.src = MemberS(x)
          /\ ~sh[last.src].live
          /\ blk[x].deleted = 1
          /\ sh[last.dst].live
          /\ sh[last.dst].cb \in Blocks \ {x}
          /\ blk[sh[last.dst].cb].ref_count = 1
          /\ blk[sh[last.dst].cb].deleted = 0
====
